---------------------------- MODULE Spec2Model ----------------------------
(***************************************************************************)
(* The servertime microservice: main.go (the final program), the earlier   *)
(* variant of the same program (unnamed/part_000) and main_test.go.        *)
(*                                                                         *)
(* A Go string is a sequence of one-character strings, so that formatting, *)
(* parsing and JSON encoding are computed character by character.  Str(s)  *)
(* folds such a sequence into one TLA+ string for comparison with a        *)
(* literal.                                                                *)
(***************************************************************************)
EXTENDS Integers, Sequences, FiniteSets, TLC

\* ------------------------------------------------------------------ bounds

\* Number of requests the HTTP server handles concurrently (one goroutine
\* per connection).
MaxConns == 2

Conns == 1..MaxConns

\* ----------------------------------------------------------------- strings

RECURSIVE Str(_)
Str(s) == IF s = <<>> THEN "" ELSE Head(s) \o Str(Tail(s))

Digits == <<"0","1","2","3","4","5","6","7","8","9">>

Digit(n) == Digits[n + 1]

\* The value of a decimal digit character, -1 for any other character.
DigitVal(c) ==
  IF \E i \in 1..10 : Digits[i] = c
  THEN (CHOOSE i \in 1..10 : Digits[i] = c) - 1
  ELSE -1

\* time.appendInt(b, x, 2) for 0 <= x < 100: two digits, zero padded.
AppendInt2(x) == <<Digit((x \div 10) % 10), Digit(x % 10)>>

\* time.appendInt(b, x, 4) for 0 <= x: at least four digits, zero padded.
RECURSIVE AppendIntDigits(_)
AppendIntDigits(x) ==
  IF x < 10 THEN <<Digit(x)>> ELSE AppendIntDigits(x \div 10) \o <<Digit(x % 10)>>

AppendInt4(x) ==
  LET d == AppendIntDigits(x)
  IN  IF Len(d) >= 4 THEN d
      ELSE SubSeq(<<"0","0","0">>, 1, 4 - Len(d)) \o d

\* ---------------------------------------------------------------- calendar

\* time's shortMonthNames.
MonthAbbr ==
  << <<"J","a","n">>, <<"F","e","b">>, <<"M","a","r">>, <<"A","p","r">>,
     <<"M","a","y">>, <<"J","u","n">>, <<"J","u","l">>, <<"A","u","g">>,
     <<"S","e","p">>, <<"O","c","t">>, <<"N","o","v">>, <<"D","e","c">> >>

IsLeap(year) == year % 4 = 0 /\ (year % 100 # 0 \/ year % 400 = 0)

DaysIn(month, year) ==
  IF month = 2 THEN (IF IsLeap(year) THEN 29 ELSE 28)
  ELSE IF month \in {4, 6, 9, 11} THEN 30 ELSE 31

\* Days from 1970-01-01 to the civil date year-month-day (proleptic
\* Gregorian calendar), the day count inside a time.Time.
DaysFromCivil(year, month, day) ==
  LET y   == IF month <= 2 THEN year - 1 ELSE year
      era == y \div 400
      yoe == y - era * 400
      mp  == IF month > 2 THEN month - 3 ELSE month + 9
      doy == (153 * mp + 2) \div 5 + day - 1
      doe == yoe * 365 + yoe \div 4 - yoe \div 100 + doy
  IN  era * 146097 + doe - 719468

\* A clock reading is what time.Now() returns: the wall-clock fields in the
\* local zone and the zone's offset east of UTC in seconds.
Reading(y, mo, d, h, mi, s, o) ==
  [year |-> y, month |-> mo, day |-> d, hour |-> h, min |-> mi, sec |-> s,
   off |-> o]

\* The absolute instant of a reading: <<days since the epoch, second of the
\* UTC day>>.
Instant(t) ==
  LET secs == t.hour * 3600 + t.min * 60 + t.sec - t.off
  IN  <<DaysFromCivil(t.year, t.month, t.day) + secs \div 86400, secs % 86400>>

Abs(x) == IF x < 0 THEN -x ELSE x

\* Whether two instants are at most one minute apart.
WithinOneMinute(a, b) ==
  /\ Abs(a[1] - b[1]) <= 1
  /\ Abs((a[1] - b[1]) * 86400 + a[2] - b[2]) <= 60

\* The readings the system clock reports in the model: the README's example,
\* a leap day with a negative offset, dates on both sides of the two-digit
\* year pivot, a zone whose offset has seconds
\* (Africa/Monrovia before 1972) and a five-digit year.
ClockReadings ==
  { Reading(2016,  9, 23, 11, 39,  0,   3600),
    Reading(2000,  2, 29, 23, 59, 59, -25200),
    Reading(2069,  1,  1,  0,  0,  0,      0),
    Reading(1970,  1,  5,  8,  5, 45,  -2670),
    Reading(10000, 1,  1,  0,  0,  0,      0) }

NoReading == Reading(0, 0, 0, 0, 0, 0, 0)

\* ------------------------------------------------- time.Format, time.Parse

FormatZone(off, sep) ==
  LET zone == IF off < 0 THEN -((-off) \div 60) ELSE off \div 60
      mag  == Abs(zone)
  IN  <<IF zone < 0 THEN "-" ELSE "+">>
        \o AppendInt2(mag \div 60) \o sep \o AppendInt2(mag % 60)

\* A 12-hour rendering of the hour: the layout "03" instead of "15".
FormatRFC822Z_12h(t) ==
  AppendInt2(t.day) \o <<" ">> \o MonthAbbr[t.month] \o <<" ">>
    \o AppendInt2(t.year % 100) \o <<" ">>
    \o AppendInt2(IF t.hour % 12 = 0 THEN 12 ELSE t.hour % 12) \o <<":">>
    \o AppendInt2(t.min) \o <<" ">> \o FormatZone(t.off, <<>>)

\* A rendering with the full year: the layout "2006" instead of "06".
FormatRFC822Z_year4(t) ==
  AppendInt2(t.day) \o <<" ">> \o MonthAbbr[t.month] \o <<" ">>
    \o AppendInt4(t.year) \o <<" ">>
    \o AppendInt2(t.hour) \o <<":">>
    \o AppendInt2(t.min) \o <<" ">> \o FormatZone(t.off, <<>>)

\* t.Format(time.RFC822Z), layout "02 Jan 06 15:04 -0700".
FormatRFC822Z(t) ==
  AppendInt2(t.day) \o <<" ">> \o MonthAbbr[t.month] \o <<" ">>
    \o AppendInt2(t.year % 100) \o <<" ">>
    \o AppendInt2(t.hour) \o <<":">>
    \o AppendInt2(t.min) \o <<" ">> \o FormatZone(t.off, <<>>)

\* t.Format(time.RFC3339Nano) of a reading without nanoseconds, the text
\* Time.MarshalJSON produces.
FormatRFC3339(t) ==
  AppendInt4(t.year) \o <<"-">> \o AppendInt2(t.month) \o <<"-">>
    \o AppendInt2(t.day) \o <<"T">> \o AppendInt2(t.hour) \o <<":">>
    \o AppendInt2(t.min) \o <<":">> \o AppendInt2(t.sec)
    \o (IF Abs(t.off) < 60 THEN <<"Z">> ELSE FormatZone(t.off, <<":">>))

\* Two decimal digits at positions i, i+1 of s, -1 when either is no digit.
Num2(s, i) ==
  IF DigitVal(s[i]) < 0 \/ DigitVal(s[i + 1]) < 0 THEN -1
  ELSE 10 * DigitVal(s[i]) + DigitVal(s[i + 1])

MonthOf(s, i) ==
  LET abbr == SubSeq(s, i, i + 2)
  IN  IF \E m \in 1..12 : MonthAbbr[m] = abbr
      THEN CHOOSE m \in 1..12 : MonthAbbr[m] = abbr
      ELSE 0

ParseError == [ok |-> FALSE, time |-> NoReading]

\* time.Parse(time.RFC822Z, s): the fields at the layout's positions, a
\* two-digit year yy read as 19yy when yy >= 69 and as 20yy otherwise, the
\* range checks on day, hour, minute and zone offset.
ParseRFC822Z(s) ==
  IF Len(s) # 21 THEN ParseError
  ELSE
    LET day   == Num2(s, 1)
        month == MonthOf(s, 4)
        yy    == Num2(s, 8)
        year  == IF yy >= 69 THEN 1900 + yy ELSE 2000 + yy
        hour  == Num2(s, 11)
        min   == Num2(s, 14)
        sign  == s[17]
        zh    == Num2(s, 18)
        zm    == Num2(s, 20)
        zone  == (zh * 60 + zm) * 60
    IN  IF \/ s[3] # " " \/ s[7] # " " \/ s[10] # " " \/ s[13] # ":"
           \/ s[16] # " " \/ sign \notin {"+", "-"}
           \/ day < 0 \/ month = 0 \/ yy < 0 \/ hour < 0 \/ min < 0
           \/ zh < 0 \/ zm < 0
           \/ hour >= 24 \/ min >= 60 \/ zh > 24 \/ zm > 60
        THEN ParseError
        ELSE IF day < 1 \/ day > DaysIn(month, year) THEN ParseError
        ELSE [ok |-> TRUE,
              time |-> Reading(year, month, day, hour, min, 0,
                               IF sign = "-" THEN -zone ELSE zone)]

\* ----------------------------------------------------------- encoding/json

\* encodeState.string for one character: the quote, the backslash and the
\* HTML-sensitive characters are escaped, every other character of the
\* model's alphabet is copied.
EscapeChar(c) ==
  IF c = "\"" THEN <<"\\", "\"">>
  ELSE IF c = "\\" THEN <<"\\", "\\">>
  ELSE IF c = "<" THEN <<"\\", "u", "0", "0", "3", "c">>
  ELSE IF c = ">" THEN <<"\\", "u", "0", "0", "3", "e">>
  ELSE IF c = "&" THEN <<"\\", "u", "0", "0", "2", "6">>
  ELSE <<c>>

RECURSIVE Escape(_)
Escape(s) == IF s = <<>> THEN <<>> ELSE EscapeChar(Head(s)) \o Escape(Tail(s))

\* json.Marshal of a Go string.
MarshalString(s) == <<"\"">> \o Escape(s) \o <<"\"">>

NoError == <<>>

YearRangeError ==
  <<"j","s","o","n",":"," ","e","r","r","o","r"," ","c","a","l","l","i","n",
    "g"," ","M","a","r","s","h","a","l","J","S","O","N"," ","f","o","r"," ",
    "t","y","p","e"," ","t","i","m","e",".","T","i","m","e",":"," ","T","i",
    "m","e",".","M","a","r","s","h","a","l","J","S","O","N",":"," ","y","e",
    "a","r"," ","o","u","t","s","i","d","e"," ","o","f"," ","r","a","n","g",
    "e"," ","[","0",",","9","9","9","9","]">>

UnsupportedTypeError ==
  <<"j","s","o","n",":"," ","u","n","s","u","p","p","o","r","t","e","d"," ",
    "t","y","p","e",":"," ","c","h","a","n"," ","i","n","t">>

KeyFormattedTime == <<"F","o","r","m","a","t","t","e","d","T","i","m","e">>

KeyGreeting == <<"G","r","e","e","t","i","n","g">>

HiThere == <<"H","i"," ","t","h","e","r","e">>

\* A record whose greeting is not the documented literal.
NewServiceResult_hello(t) ==
  [FormattedTime |-> t, Greeting |-> <<"H","e","l","l","o">>]

\* sr := ServiceResult{t, "Hi there"}
NewServiceResult(t) == [FormattedTime |-> t, Greeting |-> HiThere]

\* A record type json.Marshal cannot encode (a channel field).
MarshalServiceResult_unsupported(sr) ==
  [js |-> <<>>, err |-> UnsupportedTypeError]

\* A record type whose fields are declared in the other order.
MarshalServiceResult_swapped(sr) ==
  [js  |-> <<"{">> \o MarshalString(KeyGreeting) \o <<":">>
             \o MarshalString(sr.Greeting) \o <<",">>
             \o MarshalString(KeyFormattedTime) \o <<":">>
             \o MarshalString(sr.FormattedTime) \o <<"}">>,
   err |-> NoError]

\* json.Marshal(sr) for the struct ServiceResult: the exported fields in
\* declaration order, keyed by their names; encoding two strings has no
\* error case.
MarshalServiceResult(sr) ==
  [js  |-> <<"{">> \o MarshalString(KeyFormattedTime) \o <<":">>
             \o MarshalString(sr.FormattedTime) \o <<",">>
             \o MarshalString(KeyGreeting) \o <<":">>
             \o MarshalString(sr.Greeting) \o <<"}">>,
   err |-> NoError]

\* json.Marshal(t) for a time.Time: Time.MarshalJSON refuses a year outside
\* [0,9999], otherwise the quoted RFC 3339 text.
MarshalTime(t) ==
  IF t.year < 0 \/ t.year > 9999
  THEN [js |-> <<>>, err |-> YearRangeError]
  ELSE [js |-> <<"\"">> \o FormatRFC3339(t) \o <<"\"">>, err |-> NoError]

\* Decoding, as a client of the service does it: a JSON object whose values
\* are strings, into the sequence of its <<key, value>> members.
JSONFail == [ok |-> FALSE, val |-> <<>>, next |-> 0]

Unescape(c) ==
  IF c \in {"\"", "\\", "/"} THEN c ELSE "?"

RECURSIVE ScanChars(_, _, _)
ScanChars(s, i, acc) ==
  IF i > Len(s) THEN JSONFail
  ELSE IF s[i] = "\"" THEN [ok |-> TRUE, val |-> acc, next |-> i + 1]
  ELSE IF s[i] = "\\"
       THEN IF i + 1 > Len(s) \/ Unescape(s[i + 1]) = "?" THEN JSONFail
            ELSE ScanChars(s, i + 2, Append(acc, Unescape(s[i + 1])))
  ELSE ScanChars(s, i + 1, Append(acc, s[i]))

ScanString(s, i) ==
  IF i > Len(s) \/ s[i] # "\"" THEN JSONFail ELSE ScanChars(s, i + 1, <<>>)

RECURSIVE ParseMembers(_, _, _)
ParseMembers(s, i, acc) ==
  LET k == ScanString(s, i)
  IN  IF ~k.ok \/ k.next > Len(s) \/ s[k.next] # ":" THEN JSONFail
      ELSE LET v   == ScanString(s, k.next + 1)
               all == Append(acc, <<k.val, v.val>>)
           IN  IF ~v.ok \/ v.next > Len(s) THEN JSONFail
               ELSE IF s[v.next] = "," THEN ParseMembers(s, v.next + 1, all)
               ELSE IF s[v.next] = "}" /\ v.next = Len(s)
                    THEN [ok |-> TRUE, val |-> all, next |-> v.next + 1]
               ELSE JSONFail

ParseJSONObject(s) ==
  IF Len(s) < 2 \/ s[1] # "{" THEN JSONFail
  ELSE IF Len(s) = 2 /\ s[2] = "}" THEN [ok |-> TRUE, val |-> <<>>, next |-> 3]
  ELSE ParseMembers(s, 2, <<>>)

\* ---------------------------------------------------------------- net/http

StatusOK == 200

StatusInternalServerError == 500

ContentTypeJSON == "application/json"

ContentTypePlain == "text/plain; charset=utf-8"

\* A fresh http.ResponseWriter: the handler's header map, whether the status
\* line and headers have been sent, the status and headers as sent, and the
\* body bytes written so far.
NoHeader == [ct |-> "", xcto |-> ""]

NewResponseWriter ==
  [header |-> NoHeader, wroteHeader |-> FALSE, status |-> 0,
   sent |-> NoHeader, body |-> <<>>]

\* w.Header().Set("Content-Type", v)
HeaderSetContentType(rw, v) == [rw EXCEPT !.header.ct = v]

\* w.WriteHeader(code): the first call sends the status and a snapshot of
\* the header map; later calls change nothing.
WriteHeader(rw, code) ==
  IF rw.wroteHeader THEN rw
  ELSE [rw EXCEPT !.wroteHeader = TRUE, !.status = code, !.sent = rw.header]

\* w.Write(b): an implicit WriteHeader(200) when none was sent, with the
\* Content-Type sniffed from the bytes (plain text) when the handler set
\* none; then the bytes are appended to the body.
ResponseWrite(rw, b) ==
  LET h  == IF rw.wroteHeader \/ rw.header.ct # "" THEN rw
            ELSE HeaderSetContentType(rw, ContentTypePlain)
      w1 == WriteHeader(h, StatusOK)
  IN  [w1 EXCEPT !.body = w1.body \o b]

\* An error reply that forgets the status: the message is written with the
\* implicit status 200.
HttpError_implicitStatus(rw, error, code) ==
  LET h == [rw EXCEPT !.header = [ct |-> ContentTypePlain, xcto |-> "nosniff"]]
  IN  ResponseWrite(h, error \o <<"\n">>)

\* http.Error(w, error, code): plain-text Content-Type, nosniff,
\* WriteHeader(code), then fmt.Fprintln(w, error).
HttpError(rw, error, code) ==
  LET h == [rw EXCEPT !.header = [ct |-> ContentTypePlain, xcto |-> "nosniff"]]
  IN  ResponseWrite(WriteHeader(h, code), error \o <<"\n">>)

\* ServeMux: the pattern "/" matches every path.
MuxMatch(patterns, path) == "/" \in patterns

\* ------------------------------------------------------------ the programs

\* main.go, the earlier variant (unnamed/part_000) and the test binary of
\* main_test.go.
Programs == {"main", "part_000", "test"}

\* The requests the model sends: two methods, two paths.
Requests == {[method |-> "GET", path |-> "/"],
             [method |-> "POST", path |-> "/time"]}

\* The port of http.ListenAndServe's address in each program, and the port
\* the README and the Dockerfile name.
ListenPortMain == 80

ListenPortPart000 == 8080

DocumentedPort == 8080

ListenPort(p) == IF p = "main" THEN ListenPortMain ELSE ListenPortPart000

\* The reading of a clock sampled once, when the process starts.
BootReading == Reading(2016, 9, 23, 11, 39, 0, 3600)

\* A time computed once at start-up and reused by every call.
currentTime_cached(now) == FormatRFC822Z(BootReading)

\* A time rendered with a 12-hour clock.
currentTime_12h(now) == FormatRFC822Z_12h(now)

\* A time rendered with a four-digit year.
currentTime_year4(now) == FormatRFC822Z_year4(now)

\* func currentTime() string, with the value time.Now() returns as `now`.
currentTime(now) == FormatRFC822Z(now)

\* A handler that writes the body before it sets the header.
NextLabel_writeFirst(l, failed) ==
  CASE l = "time" -> "marshal"
    [] l = "marshal" -> IF failed THEN "error" ELSE "write"
    [] l = "error" -> "done"
    [] l = "write" -> "setHeader"
    [] l = "setHeader" -> "done"

\* A handler that spins on the statement before the body is written.
NextLabel_wait(l, failed) ==
  CASE l = "time" -> "marshal"
    [] l = "marshal" -> IF failed THEN "error" ELSE "setHeader"
    [] l = "error" -> "done"
    [] l = "setHeader" -> "setHeader"
    [] l = "write" -> "done"

\* The handler's control flow: the statement that follows statement l, with
\* `failed` the outcome of `if err != nil`.
NextLabel(l, failed) ==
  CASE l = "time" -> "marshal"
    [] l = "marshal" -> IF failed THEN "error" ELSE "setHeader"
    [] l = "error" -> "done"
    [] l = "setHeader" -> "write"
    [] l = "write" -> "done"

VARIABLES
  prog,        \* which program this process runs
  clock,       \* the readings the system clock can report in this run
  mainpc,      \* position of main()
  patterns,    \* the patterns registered with the default ServeMux
  listenPort,  \* the port the listener is bound to, 0 when none
  pc,          \* per connection: position of the handler
  req,         \* per connection: the request being handled
  t,           \* per connection: the handler's local t
  js,          \* per connection: the handler's local js
  err,         \* per connection: the handler's local err (its Error() text)
  w,           \* per connection: the ResponseWriter
  reads,       \* per connection: how many times the handler read the clock
  readAt,      \* per connection: the clock reading the handler took
  testpc,      \* position of TestCurrentTime
  result,      \* TestCurrentTime's local result
  testNow,     \* the clock reading TestCurrentTime's call took
  parsed,      \* what time.Parse returned to TestCurrentTime
  failed       \* whether TestCurrentTime called t.Fail()

envVars == <<prog, clock>>

mainVars == <<mainpc, patterns, listenPort>>

connVars == <<pc, req, t, js, err, w, reads, readAt>>

testVars == <<testpc, result, testNow, parsed, failed>>

vars == <<prog, clock, mainpc, patterns, listenPort, pc, req, t, js, err, w, reads,
          readAt, testpc, result, testNow, parsed, failed>>

NoRequest == [method |-> "", path |-> ""]

\* The two readings that decide how a handler ends: one every program
\* serializes, one Time.MarshalJSON refuses.
TerminationReadings ==
  { Reading(2016, 9, 23, 11, 39, 0, 3600), Reading(10000, 1, 1, 0, 0, 0, 0) }

InitWith(readings) ==
  /\ prog \in Programs
  /\ clock = readings
  /\ mainpc = IF prog = "test" THEN "notrun" ELSE "HandleFunc"
  /\ patterns = {}
  /\ listenPort = 0
  /\ pc = [r \in Conns |-> "idle"]
  /\ req = [r \in Conns |-> NoRequest]
  /\ t = [r \in Conns |-> <<>>]
  /\ js = [r \in Conns |-> <<>>]
  /\ err = [r \in Conns |-> NoError]
  /\ w = [r \in Conns |-> NewResponseWriter]
  /\ reads = [r \in Conns |-> 0]
  /\ readAt = [r \in Conns |-> NoReading]
  /\ testpc = IF prog = "test" THEN "currentTime" ELSE "notrun"
  /\ result = <<>>
  /\ testNow = NoReading
  /\ parsed = ParseError
  /\ failed = FALSE

Init == InitWith(ClockReadings)

FairInit == InitWith(TerminationReadings)

\* main: http.HandleFunc("/", handler)
HandleFunc ==
  /\ mainpc = "HandleFunc"
  /\ patterns' = patterns \cup {"/"}
  /\ mainpc' = "ListenAndServe"
  /\ UNCHANGED <<envVars, listenPort, connVars, testVars>>

\* main: http.ListenAndServe(addr, nil) binds the port and serves.
ListenAndServe ==
  /\ mainpc = "ListenAndServe"
  /\ listenPort' = ListenPort(prog)
  /\ mainpc' = "serving"
  /\ UNCHANGED <<envVars, patterns, connVars, testVars>>

\* main: http.ListenAndServe fails to bind; it returns the error, which main
\* drops, and the process ends.
ListenFails ==
  /\ mainpc = "ListenAndServe"
  /\ mainpc' = "exited"
  /\ UNCHANGED <<envVars, patterns, listenPort, connVars, testVars>>

\* The server accepts a request and dispatches it to the handler on a
\* goroutine of its own, with a fresh ResponseWriter.
Accept(r, q) ==
  /\ mainpc = "serving"
  /\ pc[r] = "idle"
  /\ MuxMatch(patterns, q.path)
  /\ pc' = [pc EXCEPT ![r] = "time"]
  /\ req' = [req EXCEPT ![r] = q]
  /\ UNCHANGED <<envVars, mainVars, t, js, err, w, reads, readAt, testVars>>

\* main.go handler: t := currentTime()
CallCurrentTime(r) ==
  /\ prog = "main"
  /\ pc[r] = "time"
  /\ \E now \in clock :
       /\ t' = [t EXCEPT ![r] = currentTime(now)]
       /\ readAt' = [readAt EXCEPT ![r] = now]
  /\ reads' = [reads EXCEPT ![r] = @ + 1]
  /\ pc' = [pc EXCEPT ![r] = NextLabel("time", FALSE)]
  /\ UNCHANGED <<envVars, mainVars, req, js, err, w, testVars>>

\* part_000 handler: t := time.Now()
CallTimeNow(r) ==
  /\ prog = "part_000"
  /\ pc[r] = "time"
  /\ \E now \in clock :
       /\ t' = [t EXCEPT ![r] = now]
       /\ readAt' = [readAt EXCEPT ![r] = now]
  /\ reads' = [reads EXCEPT ![r] = @ + 1]
  /\ pc' = [pc EXCEPT ![r] = NextLabel("time", FALSE)]
  /\ UNCHANGED <<envVars, mainVars, req, js, err, w, testVars>>

\* js, err := json.Marshal(...) and the test `if err != nil`.
Marshal(r) ==
  /\ pc[r] = "marshal"
  /\ LET m == IF prog = "main"
              THEN MarshalServiceResult(NewServiceResult(t[r]))
              ELSE MarshalTime(t[r])
     IN  /\ js' = [js EXCEPT ![r] = m.js]
         /\ err' = [err EXCEPT ![r] = m.err]
         /\ pc' = [pc EXCEPT ![r] = NextLabel("marshal", m.err # NoError)]
  /\ UNCHANGED <<envVars, mainVars, req, t, w, reads, readAt, testVars>>

\* http.Error(w, err.Error(), http.StatusInternalServerError); return
ReplyError(r) ==
  /\ pc[r] = "error"
  /\ w' = [w EXCEPT ![r] = HttpError(@, err[r], StatusInternalServerError)]
  /\ pc' = [pc EXCEPT ![r] = NextLabel("error", TRUE)]
  /\ UNCHANGED <<envVars, mainVars, req, t, js, err, reads, readAt, testVars>>

\* w.Header().Set("Content-Type", "application/json")
SetHeader(r) ==
  /\ pc[r] = "setHeader"
  /\ w' = [w EXCEPT ![r] = HeaderSetContentType(@, ContentTypeJSON)]
  /\ pc' = [pc EXCEPT ![r] = NextLabel("setHeader", FALSE)]
  /\ UNCHANGED <<envVars, mainVars, req, t, js, err, reads, readAt, testVars>>

\* w.Write(js)
Write(r) ==
  /\ pc[r] = "write"
  /\ w' = [w EXCEPT ![r] = ResponseWrite(@, js[r])]
  /\ pc' = [pc EXCEPT ![r] = NextLabel("write", FALSE)]
  /\ UNCHANGED <<envVars, mainVars, req, t, js, err, reads, readAt, testVars>>

\* The handler has returned: the server flushes the response and the
\* goroutine's locals and ResponseWriter are gone.
Finish(r) ==
  /\ pc[r] = "done"
  /\ pc' = [pc EXCEPT ![r] = "idle"]
  /\ req' = [req EXCEPT ![r] = NoRequest]
  /\ t' = [t EXCEPT ![r] = <<>>]
  /\ js' = [js EXCEPT ![r] = <<>>]
  /\ err' = [err EXCEPT ![r] = NoError]
  /\ w' = [w EXCEPT ![r] = NewResponseWriter]
  /\ reads' = [reads EXCEPT ![r] = 0]
  /\ readAt' = [readAt EXCEPT ![r] = NoReading]
  /\ UNCHANGED <<envVars, mainVars, testVars>>

\* TestCurrentTime: result := currentTime()
TestCallCurrentTime ==
  /\ testpc = "currentTime"
  /\ \E now \in clock :
       /\ result' = currentTime(now)
       /\ testNow' = now
  /\ testpc' = "parse"
  /\ UNCHANGED <<envVars, mainVars, connVars, parsed, failed>>

\* TestCurrentTime: _, err := time.Parse(time.RFC822Z, result)
TestParse ==
  /\ testpc = "parse"
  /\ parsed' = ParseRFC822Z(result)
  /\ testpc' = "check"
  /\ UNCHANGED <<envVars, mainVars, connVars, result, testNow, failed>>

\* TestCurrentTime: if err != nil { t.Fail() }
TestCheck ==
  /\ testpc = "check"
  /\ failed' = ~parsed.ok
  /\ testpc' = "done"
  /\ UNCHANGED <<envVars, mainVars, connVars, result, testNow, parsed>>

HandlerStep(r) ==
  \/ CallCurrentTime(r)
  \/ CallTimeNow(r)
  \/ Marshal(r)
  \/ ReplyError(r)
  \/ SetHeader(r)
  \/ Write(r)
  \/ Finish(r)

Next ==
  \/ HandleFunc
  \/ ListenAndServe
  \/ ListenFails
  \/ \E r \in Conns, q \in Requests : Accept(r, q)
  \/ \E r \in Conns : HandlerStep(r)
  \/ TestCallCurrentTime
  \/ TestParse
  \/ TestCheck

Spec == Init /\ [][Next]_vars

\* Every goroutine the server started, and the test, keeps being scheduled.
\* The clock is restricted to the readings that decide the handler's path.
FairSpec ==
  /\ FairInit
  /\ [][Next]_vars
  /\ \A r \in Conns : WF_vars(HandlerStep(r))
  /\ WF_vars(TestCallCurrentTime \/ TestParse \/ TestCheck)

\* ------------------------------------------------------------------ claims

ExampleReading == Reading(2016, 9, 23, 11, 39, 0, 3600)

\* The handler of connection r has read the clock and holds its local t.
HasTime(r) == pc[r] \notin {"idle", "time"}

\* C1: whatever the clock reports, the string currentTime() returns parses
\* without error under the RFC822Z layout: TestCurrentTime never fails, and
\* every time string a handler of main.go holds parses.
C1_FormattedTimeParses ==
  /\ testpc \in {"check", "done"} => parsed.ok
  /\ testpc = "done" => ~failed
  /\ prog = "main" =>
       \A r \in Conns : HasTime(r) => ParseRFC822Z(t[r]).ok

\* TestCurrentTime has passed on a reading past the two-digit-year pivot.
C1_Witness == testpc = "done" /\ ~failed /\ testNow.year = 2069

\* C6 as stated: for every reading the clock can report, parsing the result
\* of currentTime() yields an instant within one minute of the reading.
C6_Original ==
  testpc \in {"check", "done"} =>
    parsed.ok /\ WithinOneMinute(Instant(testNow), Instant(parsed.time))

\* C6 as amended: for every reading whose year is in 1969..2068 and whose
\* UTC offset is a whole number of minutes, parsing the result of
\* currentTime() yields an instant within one minute of the reading.
C6_RoundTripWithinPivotWindow ==
  (testpc \in {"check", "done"}
     /\ testNow.year \in 1969..2068 /\ testNow.off % 60 = 0) =>
    parsed.ok /\ WithinOneMinute(Instant(testNow), Instant(parsed.time))

\* The round trip has been made on a late-evening reading inside the window,
\* whose seconds are lost.
C6_Witness ==
  /\ testpc = "done"
  /\ testNow = Reading(2000, 2, 29, 23, 59, 59, -25200)
  /\ parsed.time.sec = 0

\* The members of the JSON object in the body of r's response.
BodyObject(r) == ParseJSONObject(w[r].body)

ExpectedRendering(now) ==
  CASE now = Reading(2016, 9, 23, 11, 39, 0, 3600)   -> "23 Sep 16 11:39 +0100"
    [] now = Reading(2000, 2, 29, 23, 59, 59, -25200) -> "29 Feb 00 23:59 -0700"
    [] now = Reading(2069, 1, 1, 0, 0, 0, 0)          -> "01 Jan 69 00:00 +0000"
    [] now = Reading(1970, 1, 5, 8, 5, 45, -2670)     -> "05 Jan 70 08:05 -0044"
    [] now = Reading(10000, 1, 1, 0, 0, 0, 0)         -> "01 Jan 00 00:00 +0000"
    [] OTHER -> Str(FormatRFC822Z(now))

C4_Sent ==
  /\ \A r \in Conns : (err[r] = NoError /\ w[r].body # <<>>) =>
       /\ w[r].wroteHeader
       /\ w[r].status = StatusOK
       /\ w[r].sent.ct = ContentTypeJSON
  /\ \A r \in Conns : (pc[r] = "done" /\ err[r] = NoError) =>
       /\ w[r].status = StatusOK
       /\ w[r].sent.ct = ContentTypeJSON
       /\ w[r].body = js[r]
       /\ w[r].body # <<>>
  /\ \A r, q \in Conns :
       (pc[r] = "done" /\ pc[q] = "done" /\ readAt[r] = readAt[q]) =>
         w[r] = w[q]

\* The step part of C4: the step that writes the first body byte of a
\* successful response starts with the header already set.
C4_HeaderFirst ==
  \A r \in Conns :
    (err[r] = NoError /\ w[r].body = <<>> /\ w'[r].body # <<>>) =>
      w[r].header.ct = ContentTypeJSON

\* C4: when serialization succeeds the handler sets Content-Type:
\* application/json before it writes any body byte, then writes the JSON
\* bytes, the status is 200, and the response does not depend on the
\* request's method or path.
C4_HeaderThenBody == [](C4_Sent) /\ [][C4_HeaderFirst]_vars

\* Two finished responses for the same reading, to requests that differ in
\* method and path.
C4_Witness ==
  \E r, q \in Conns :
    /\ pc[r] = "done" /\ pc[q] = "done"
    /\ req[r].method = "GET" /\ req[q].method = "POST"
    /\ req[r].path = "/" /\ req[q].path = "/time"
    /\ readAt[r] = readAt[q]
    /\ w[r].status = StatusOK /\ w[r].sent.ct = ContentTypeJSON

\* C5 as stated: after a serialization failure the response has status 500,
\* a body exactly equal to the error's description, no application/json
\* Content-Type and no JSON bytes, and the clock was read once (no retry).
C5_Original ==
  \A r \in Conns : (pc[r] = "done" /\ err[r] # NoError) =>
    /\ w[r].status = StatusInternalServerError
    /\ w[r].body = err[r]
    /\ w[r].sent.ct # ContentTypeJSON
    /\ js[r] = <<>>
    /\ reads[r] = 1

\* C5 as amended: after a serialization failure the response has status
\* 500, a body equal to the error's description followed by one line feed,
\* Content-Type text/plain; charset=utf-8 (not application/json) and no JSON
\* bytes, and the clock was read once (no retry).
C5_ErrorReply ==
  \A r \in Conns : (pc[r] = "done" /\ err[r] # NoError) =>
    /\ w[r].status = StatusInternalServerError
    /\ w[r].body = err[r] \o <<"\n">>
    /\ w[r].sent.ct = ContentTypePlain
    /\ w[r].sent.ct # ContentTypeJSON
    /\ js[r] = <<>>
    /\ reads[r] = 1

C5_Witness ==
  \E r \in Conns : pc[r] = "done" /\ err[r] = YearRangeError
                     /\ w[r].wroteHeader

\* C7: once the process serves, it listens on the port the README and the
\* Dockerfile name (8080), and the route "/" was registered before.
C7_ListensOnDocumentedPort ==
  mainpc = "serving" => listenPort = DocumentedPort /\ "/" \in patterns

\* C8: in main.go's handler the serialization-failure branch is never
\* taken and no response has status 500.
C8_NoErrorInMain ==
  prog = "main" =>
    \A r \in Conns :
      /\ pc[r] # "error"
      /\ err[r] = NoError
      /\ w[r].status # StatusInternalServerError

\* main.go's handler has answered 200 while the clock read a five-digit
\* year.
C8_Witness ==
  /\ prog = "main"
  /\ \E r \in Conns : pc[r] = "done" /\ readAt[r].year = 10000
                        /\ w[r].status = StatusOK

\* C9: under any interleaving, each handler of main.go has read the clock
\* exactly once, its t is the rendering of the reading it took itself, and
\* the FormattedTime of its response is that rendering.
C9_OwnClockReading ==
  prog = "main" =>
    \A r \in Conns :
      /\ HasTime(r) => reads[r] = 1 /\ t[r] = FormatRFC822Z(readAt[r])
      /\ pc[r] = "done" =>
           /\ BodyObject(r).ok
           /\ BodyObject(r).val[1] = <<KeyFormattedTime, FormatRFC822Z(readAt[r])>>

\* Two requests handled concurrently that took different readings.
C9_Witness ==
  /\ prog = "main"
  /\ \E r, q \in Conns :
       /\ pc[r] = "done" /\ pc[q] = "write"
       /\ readAt[r] # readAt[q]

\* The finished handler of connection r has produced exactly one response:
\* the 200 JSON response or the 500 error response.
OneResponse(r) ==
  /\ w[r].wroteHeader
  /\ \/ /\ err[r] = NoError
        /\ w[r].status = StatusOK
        /\ w[r].body = js[r]
        /\ w[r].body # <<>>
     \/ /\ err[r] # NoError
        /\ w[r].status = StatusInternalServerError
        /\ w[r].body = err[r] \o <<"\n">>

\* C10: every request dispatched to the handler eventually has its handling
\* finished, the connection awaiting requests again, and when the handler
\* returns it has produced exactly one response.
C10_EventuallyAnswered ==
  /\ [](\A r \in Conns : pc[r] = "done" => OneResponse(r))
  /\ \A r \in Conns : (pc[r] # "idle") ~> (pc[r] = "idle")

\* One connection finished with the error response while another finished
\* with the JSON response.
C10_Witness ==
  \E r, q \in Conns :
    /\ pc[r] = "done" /\ w[r].status = StatusInternalServerError
    /\ pc[q] = "done" /\ w[q].status = StatusOK

=============================================================================
